---- MODULE Spec2Model ----
(***************************************************************************)
(* A model of the CNF spectrum-file codec of SpecUtils                     *)
(* (src/src/SpecFile_cnf.cpp): the block locator findCnfBlock, the         *)
(* word-swapped float conversions, SpecFile::load_from_cnf,                *)
(* SpecFile::load_cnf_file and SpecFile::write_cnf.                        *)
(*                                                                         *)
(* A stream is a record [bytes, len, pos, ok]: bytes is a sparse map from  *)
(* offsets to the non-zero bytes of the stream (every other offset below   *)
(* len holds 0), len the number of bytes, pos the read position and ok the *)
(* istream's good() state.                                                 *)
(***************************************************************************)
EXTENDS Integers, Sequences, FiniteSets, TLC

VARIABLES
    obj,      \* the SpecFile object: the fields load_from_cnf and reset() touch
    input,    \* the std::istream a decode call is given
    ctx,      \* the locals of the running load_from_cnf call
    pc,       \* the position of the running call
    result,   \* what the last finished call returned: "true" or "false"
    call,     \* bookkeeping of the calls: the object at entry, the number of calls,
              \* the extent of the reads, whether undefined behaviour has run (ub)
    output,   \* the std::ostream write_cnf is given, and what write_cnf returned
    loc,      \* the block locator on its own: its arguments and its result
    flt,      \* the float conversions on their own
    mutex,    \* mutex_: the recursive mutex of the object
    thr       \* the threads that call into the object

vars == <<obj, input, ctx, pc, result, call, output, loc, flt, mutex, thr>>

----------------------------------------------------------------------------
(* Bounds of the model *)

\* blocks a stream of the locator's specification is built from
MaxBlocks == 3

\* program constants
BlockSize == 512
MarkerTag == 32

Max(a, b) == IF a >= b THEN a ELSE b

SetMax(S) == CHOOSE m \in S : \A x \in S : x <= m

----------------------------------------------------------------------------
(* Streams *)

\* the byte at offset o of stream s (o < s.len)
Byte(s, o) == IF o \in DOMAIN s.bytes THEN s.bytes[o] ELSE 0

\* std::istream::read of n bytes at offset p. The bytes the stream does not
\* hold (or every byte, when the stream is not good) are not written to the
\* buffer, which keeps what it held: g.
ReadAt(s, p, n, g) ==
    [i \in 1..n |-> IF s.ok /\ p + i - 1 < s.len THEN Byte(s, p + i - 1) ELSE g]

\* whether that read succeeds: it fails (failbit) when it meets the end
ReadOk(s, p, n) == s.ok /\ p + n <= s.len

\* the stream cut to its first n bytes
Cut(s, n) ==
    [s EXCEPT !.bytes = [o \in {x \in DOMAIN s.bytes : x < n} |-> s.bytes[o]],
              !.len = n]

\* a sparse byte map from a set of <<offset, byte>> pairs, later offsets of
\* the same value winning is not needed: the pairs never disagree
BytesOf(pairs) ==
    [o \in {p[1] : p \in {q \in pairs : q[2] # 0}} |->
        (CHOOSE p \in pairs : p[1] = o /\ p[2] # 0)[2]]

\* the pairs that lay the byte sequence bs at offset o
Lay(o, bs) == {<<o + i - 1, bs[i]>> : i \in 1..Len(bs)}

----------------------------------------------------------------------------
(* The block locator *)

RECURSIVE findCnfBlockFrom(_, _, _, _, _, _)
\* the loop of findCnfBlock from position pos on, rd the offsets read so far
findCnfBlockFrom(B, pos, s, streamsize, g, rd) ==
    IF pos + BlockSize < streamsize
    THEN LET bytes == ReadAt(s, pos, 2, g)
         IN  IF bytes[1] = B /\ bytes[2] = MarkerTag
             THEN [found |-> TRUE, pos |-> pos, reads |-> rd \cup {pos}]
             ELSE findCnfBlockFrom(B, pos + BlockSize, s, streamsize, g, rd \cup {pos})
    ELSE [found |-> FALSE, pos |-> pos, reads |-> rd]

\* the mutant of findCnfBlock whose loop runs while pos+512 <= streamsize
RECURSIVE findCnfBlock_Le(_, _, _, _, _)
findCnfBlock_Le(B, SBeg, s, streamsize, g) ==
    IF SBeg + BlockSize <= streamsize
    THEN LET bytes == ReadAt(s, SBeg, 2, g)
         IN  IF bytes[1] = B /\ bytes[2] = MarkerTag
             THEN [found |-> TRUE, pos |-> SBeg, reads |-> {SBeg}]
             ELSE LET r == findCnfBlock_Le(B, SBeg + BlockSize, s, streamsize, g)
                  IN  [r EXCEPT !.reads = @ \cup {SBeg}]
    ELSE [found |-> FALSE, pos |-> SBeg, reads |-> {}]

\* findCnfBlock( B, SBeg, pos, input, streamsize ): found is its return value,
\* pos its out-parameter, reads the offsets it read two bytes at
findCnfBlock(B, SBeg, s, streamsize, g) ==
    findCnfBlockFrom(B, SBeg, s, streamsize, g, {})

----------------------------------------------------------------------------
(* IEEE-754 single precision, as the record [s, e, m] of its sign bit, its 8
   exponent bits and its 23 fraction bits; the host is little-endian. *)

FracOne == 8388608   \* 2^23, the hidden bit

\* x / d rounded to the nearest integer, ties to even (the FPU's rounding)
RoundDiv(x, d) ==
    LET q == x \div d
        r == x % d
    IN  IF 2 * r > d \/ (2 * r = d /\ q % 2 = 1) THEN q + 1 ELSE q

\* memcpy( &val, TmpBuf, sizeof(val) ): the float whose four bytes are t
FloatOfBytes(t) ==
    [s |-> t[4] \div 128,
     e |-> (t[4] % 128) * 2 + t[3] \div 128,
     m |-> (t[3] % 128) * 65536 + t[2] * 256 + t[1]]

\* reinterpret_cast<char*>(&temp_f): the four bytes of the float f
BytesOfFloat(f) ==
    <<f.m % 256,
      (f.m \div 256) % 256,
      (f.e % 2) * 128 + f.m \div 65536,
      f.s * 128 + f.e \div 2>>

\* 0.25f*val: the exponent drops by two; below the normal range the fraction
\* is shifted out and rounded; infinities and NaNs stay
Quarter(f) ==
    IF f.e = 255 THEN f
    ELSE IF f.e >= 3 THEN [f EXCEPT !.e = f.e - 2]
    ELSE LET sig  == IF f.e = 0 THEN f.m ELSE FracOne + f.m
             bits == IF f.e = 2 THEN RoundDiv(sig, 2) ELSE RoundDiv(sig, 4)
         IN  [s |-> f.s, e |-> bits \div FracOne, m |-> bits % FracOne]

\* static_cast<float>(input) * 4: the exponent rises by two, overflowing to
\* infinity; a subnormal is shifted up, exactly
Mul4(f) ==
    IF f.e = 255 THEN f
    ELSE IF f.e = 0
         THEN IF 4 * f.m < 2 * FracOne
              THEN [s |-> f.s, e |-> (4 * f.m) \div FracOne, m |-> (4 * f.m) % FracOne]
              ELSE [s |-> f.s, e |-> 2, m |-> 2 * f.m - FracOne]
    ELSE IF f.e + 2 >= 255 THEN [s |-> f.s, e |-> 255, m |-> 0]
    ELSE [f EXCEPT !.e = f.e + 2]

\* v==0.0f: both zeros compare equal to 0, a NaN to nothing
IsZeroFloat(f) == f.e = 0 /\ f.m = 0

\* the reorder of readCnfFloat: TmpBuf = { Buf[2], Buf[3], Buf[0], Buf[1] }
WordSwap(b) == <<b[3], b[4], b[1], b[2]>>

\* readCnfFloat( input ) with the stream at offset p
readCnfFloat(s, p, g) == Quarter(FloatOfBytes(WordSwap(ReadAt(s, p, 4, g))))

\* convert_to_CAM_float( input ) up to its "delete[] temp": temp_f and the
\* bytes that follow it in memory (after), sizeof(temp) being the size of a
\* pointer of the build (ptr); output is the local array it fills and touched
\* the number of bytes of memory at &temp_f it reads
convert_to_CAM_float(x, ptr, after) ==
    LET temp_f    == Mul4(x)
        temp      == BytesOfFloat(temp_f) \o after
        word_size == ptr \div 2
    IN  [output  |-> [i \in 1..ptr |->
                        IF i <= word_size THEN temp[i + word_size]
                                          ELSE temp[i - word_size]],
         touched |-> ptr]

----------------------------------------------------------------------------
(* Fixed-width reads and text *)

\* read_binary_data( input, w34 ): a little-endian uint16_t from two bytes
U16(b) == b[1] + 256 * b[2]

\* read_binary_data( input, num_channels ): a little-endian uint32_t from
\* four bytes (the model keeps below 2^31)
U32(b) == b[1] + 256 * b[2] + 65536 * b[3] + 16777216 * b[4]

\* the two bytes of a uint16_t and the four bytes of a uint32_t
BytesOfU16(v) == <<v % 256, v \div 256>>

BytesOfU32(v) == <<v % 256, (v \div 256) % 256, (v \div 65536) % 256, v \div 16777216>>

\* 0xFFFFFFFF - I on the four bytes of I
Complement(b) == [i \in 1..4 |-> 255 - b[i]]

\* 4*num_channels: an unsigned 32-bit product, which wraps at 2^32
\* (the model keeps num_channels % 2^30 below 2^29)
Mul4U32(n) == 4 * (n % 1073741824)

\* trim( s ): the padding (NUL and white space) at both ends removed
IsPad(c) == c = 0 \/ c = 32 \/ (c >= 9 /\ c <= 13)

RECURSIVE TrimLeft(_)
TrimLeft(s) == IF s # <<>> /\ IsPad(Head(s)) THEN TrimLeft(Tail(s)) ELSE s

RECURSIVE TrimRight(_)
TrimRight(s) ==
    IF s # <<>> /\ IsPad(s[Len(s)]) THEN TrimRight(SubSeq(s, 1, Len(s) - 1)) ELSE s

trim(s) == TrimRight(TrimLeft(s))

RECURSIVE IsPow2(_)
IsPow2(n) == n = 1 \/ (n > 1 /\ n % 2 = 0 /\ IsPow2(n \div 2))

\* isPowerOfTwo: (num_channels != 0) && !(num_channels & (num_channels - 1))
isPowerOfTwo(n) == n # 0 /\ IsPow2(n)

\* the test that throws "Invalid number of channels"
InvalidNumChannels(n) == ~isPowerOfTwo(n) /\ (n >= 64 /\ n <= 65536)

\* static_cast<float>( channeldata[i] ): exact below 2^24, else rounded to 24
\* significant bits; the float is kept as the integer it equals
RECURSIVE Ulp(_)
Ulp(v) == IF v < 2 * FracOne THEN 1 ELSE 2 * Ulp(v \div 2)

U32ToFloat(v) == RoundDiv(v, Ulp(v)) * Ulp(v)

----------------------------------------------------------------------------
(* The SpecFile object and the Measurement *)

\* the text constants of the source
MCA_I2K == <<73, 50, 75>>

GENERIC_Ge == <<71, 101>>

\* reset(): every field back to what the constructor gives it
ResetObj ==
    [measurements     |-> <<>>,
     remarks          |-> <<>>,
     detector_type    |-> "Unknown",
     instrument_type  |-> "",
     manufacturer     |-> "",
     instrument_model |-> "",
     filename         |-> ""]

NoCounts == [has |-> FALSE, n |-> 0, nz |-> <<>>]

NoTime == [set |-> FALSE, I |-> <<0, 0, 0, 0>>, J |-> <<0, 0, 0, 0>>]

\* std::make_shared<Measurement>()
NewMeasurement ==
    [title                    |-> <<>>,
     remarks                  |-> <<>>,
     start_time               |-> NoTime,
     real_time                |-> NoTime,
     live_time                |-> NoTime,
     calibration_coeffs       |-> <<>>,
     energy_calibration_model |-> "InvalidEquationType",
     detector_name            |-> <<>>,
     gamma_counts             |-> NoCounts,
     gamma_count_sum          |-> 0]

\* J*429.4967296 + I/1.0E7, kept as the pair it is computed from
TimeOf(I, J) == [set |-> TRUE, I |-> I, J |-> J]

\* SpecUtils::calibration_is_valid( Polynomial, coeffs, {}, num_channels ):
\* the answer v of the checker, which never accepts all-zero coefficients
calibration_is_valid(coeffs, num_channels, v) ==
    v /\ ~(\A i \in 1..Len(coeffs) : IsZeroFloat(coeffs[i]))

\* cleanup_after_load(): leaves the fields of the model as they are
cleanup_after_load(o) == o

----------------------------------------------------------------------------
(* The locals of load_from_cnf *)

NoCtx ==
    [orig_pos     |-> 0,
     size         |-> 0,
     SPos         |-> 0,
     SBeg         |-> 0,
     w34          |-> 0,
     w36          |-> 0,
     num_channels |-> 0,
     data_pos     |-> 0,
     Hdr          |-> 0,
     coeffs_read  |-> <<>>,
     validCalib   |-> FALSE,
     channeldata  |-> <<>>,
     mca_type     |-> <<>>,
     meas         |-> NewMeasurement]

\* the offsets computed from SPos, w34 and w36
record_offset(c) == c.SPos + c.w36 + 48 + 1

num_channel_offset(c) == c.SPos + 48 + 137

energy_calib_offset(c) == c.SPos + c.w34 + 48 + 68

mca_offset(c) == c.SPos + c.w34 + 48 + 156

instrument_offset(c) == c.SPos + c.w34 + 48 + 1

generic_detector_offset(c) == c.SPos + c.w34 + 48 + 732

specific_detector_offset(c) == c.SPos + c.w34 + 48 + 26

serial_num_offset(c) == c.SPos + c.w34 + 48 + 940

\* the test that throws "Invalid record offset", without its record_offset
\* term: a mutant of InvalidRecordOffset
InvalidRecordOffset_NoRecord(c) ==
    \/ (energy_calib_offset(c) + 12) > c.size
    \/ (num_channel_offset(c) + 4) > c.size
    \/ (mca_offset(c) + 8) > c.size
    \/ (instrument_offset(c) + 31) > c.size
    \/ (generic_detector_offset(c) + 8) > c.size
    \/ (specific_detector_offset(c) + 16) > c.size
    \/ (serial_num_offset(c) + 12) > c.size

\* the test that throws "Invalid record offset"
InvalidRecordOffset(c) ==
    \/ (record_offset(c) + 24) > c.size
    \/ (energy_calib_offset(c) + 12) > c.size
    \/ (num_channel_offset(c) + 4) > c.size
    \/ (mca_offset(c) + 8) > c.size
    \/ (instrument_offset(c) + 31) > c.size
    \/ (generic_detector_offset(c) + 8) > c.size
    \/ (specific_detector_offset(c) + 16) > c.size
    \/ (serial_num_offset(c) + 12) > c.size

\* the test that throws "Invalid file size"
InvalidFileSize(c) == (c.SBeg + Mul4U32(c.num_channels)) > c.size

----------------------------------------------------------------------------
(* The streams the calls are given.  A stream is laid out from a parameter
   record: the kinds of its 512-byte blocks, the layout words and fields of
   its header block, its length, read position and state. *)

MarkerOf(kind) ==
    CASE kind = "hdr"   -> <<0, MarkerTag>>
      [] kind = "title" -> <<1, MarkerTag>>
      [] kind = "chan"  -> <<5, MarkerTag>>
      [] OTHER          -> <<0, 0>>

\* the offset of the first block of that kind, -1 when there is none
FirstBlock(blocks, kind) ==
    IF \E k \in 1..Len(blocks) : blocks[k] = kind
    THEN BlockSize * ((CHOOSE k \in 1..Len(blocks) :
                          /\ blocks[k] = kind
                          /\ \A j \in 1..(k - 1) : blocks[j] # kind) - 1)
    ELSE -1

\* raw calibration fields: three word-swapped floats
CalZero == <<0, 0, 0, 0,  0, 0, 0, 0,  0, 0, 0, 0>>

CalPoly == <<0, 0, 0, 0,  128, 64, 0, 0,  0, 0, 0, 0>>

CalTiny == <<0, 0, 1, 0,  0, 0, 0, 0,  0, 0, 0, 0>>

CalNaN  == <<128, 127, 1, 0,  0, 0, 0, 0,  0, 0, 0, 0>>

MkStream(p) ==
    LET H == FirstBlock(p.blocks, "hdr")
        T == FirstBlock(p.blocks, "title")
        markers == UNION {Lay(BlockSize * (k - 1), MarkerOf(p.blocks[k])) :
                             k \in 1..Len(p.blocks)}
        title   == IF T < 0 THEN {}
                   ELSE Lay(T + 48, <<32, 84>>) \cup Lay(T + 112, <<83, 32>>)
        header  == IF H < 0 THEN {}
                   ELSE Lay(H + 34, BytesOfU16(p.w34))
                        \cup Lay(H + 36, BytesOfU16(p.w36))
                        \cup Lay(H + 185, BytesOfU32(p.nch))
                        \cup Lay(H + p.w34 + 116, p.cal)
                        \cup Lay(H + p.w34 + 50, <<68>>)
                        \cup Lay(H + p.w36 + 53, <<3>>)
                        \cup Lay(H + p.w36 + 57, <<250>>)
                        \cup (IF p.meta
                              THEN Lay(H + p.w34 + 204, MCA_I2K)
                                   \cup Lay(H + p.w34 + 780, GENERIC_Ge)
                              ELSE {})
        counts  == UNION {IF p.blocks[k] = "chan"
                          THEN Lay(BlockSize * k + 4, <<9, 0, 0, 0, 7, 0, 0, 0, 0, 1>>)
                          ELSE {} : k \in 1..Len(p.blocks)}
        all     == {q \in markers \cup title \cup header \cup counts : q[1] < p.len}
    IN  [bytes |-> BytesOf(all), len |-> p.len, pos |-> p.pos, ok |-> p.ok]

BaseParams ==
    [blocks |-> <<"hdr", "chan">>, w34 |-> 0, w36 |-> 0, nch |-> 64,
     cal |-> CalPoly, meta |-> FALSE, len |-> 1792, pos |-> 0, ok |-> TRUE]

Layouts ==
    {<<"hdr", "chan">>, <<"hdr", "chan", "chan">>, <<"title", "hdr", "chan">>,
     <<"hdr", "pad">>, <<"chan", "pad">>, <<"hdr", "chan", "pad", "chan">>}

Lens == {0, 600, 1000, 1025, 1279, 1280, 1537, 1792, 2304, 2600}

\* layouts against lengths
ParamsA == {[BaseParams EXCEPT !.blocks = b, !.len = n] : b \in Layouts, n \in Lens}

\* channel counts against calibration fields
ParamsB ==
    {[BaseParams EXCEPT !.nch = n, !.cal = c] :
        n \in {0, 1, 2, 64, 96, 128, 1073741824},
        c \in {CalZero, CalPoly, CalTiny, CalNaN}}

\* layout words against lengths
ParamsC ==
    {[BaseParams EXCEPT !.w34 = a, !.w36 = b, !.len = n] :
        a \in {0, 40}, b \in {0, 2000}, n \in {999, 1000, 1039, 1040, 1792, 2072, 2073}}

\* entry positions, stream states and the detector texts
ParamsD ==
    {[BaseParams EXCEPT !.blocks = b, !.pos = q, !.ok = k, !.meta = m] :
        b \in {<<"hdr", "chan">>, <<"hdr", "chan", "chan">>},
        q \in {0, 16, 600}, k \in BOOLEAN, m \in BOOLEAN}

Streams == {MkStream(p) : p \in ParamsA \cup ParamsB \cup ParamsC \cup ParamsD}

----------------------------------------------------------------------------
(* SpecFile::load_from_cnf and SpecFile::load_cnf_file, step by step *)

\* calls a behaviour makes
MaxCalls == 2

decodeVars == <<obj, input, ctx, pc, result, call, output>>

NoStream == [bytes |-> <<>>, len |-> 0, pos |-> 0, ok |-> FALSE]

NoCall ==
    [n |-> 0, kind |-> "none", pre |-> ResetObj, entryPos |-> 0, readEnd |-> 0,
     dataEnd |-> 0, need |-> 0, rec |-> NewMeasurement, viaFile |-> FALSE,
     ub |-> FALSE]

NoOutput ==
    [written |-> <<>>, result |-> "none", rec |-> NewMeasurement, coeffs |-> <<>>,
     had |-> FALSE]

\* what a read of uninitialised memory may find
Garbage == {0, 255}

\* the stream after a read of n bytes at offset p
AfterRead(s, p, n) ==
    IF ReadOk(s, p, n) THEN [s EXCEPT !.pos = p + n]
    ELSE [s EXCEPT !.ok = FALSE, !.pos = IF s.ok THEN s.len ELSE s.pos]

\* an allocation of 2^32 bytes or more may throw std::bad_alloc
AllocMayFail(n) == n >= 1073741824

RECURSIVE SumOver(_, _)
SumOver(f, S) ==
    IF S = {} THEN 0
    ELSE LET x == CHOOSE y \in S : TRUE IN f[x] + SumOver(f, S \ {x})

\* input.read( (char *)&channeldata[0], 4*num_channels ) into the zeroed
\* vector: the non-zero elements, by index
ChannelData(s, start, nbytes) ==
    LET offs == {o \in DOMAIN s.bytes : s.ok /\ o >= start /\ o < start + nbytes /\ o < s.len}
        idx  == {(o - start) \div 4 : o \in offs}
    IN  [i \in idx |-> U32(ReadAt(s, start + 4 * i, 4, 0))]

\* the end of the last two-byte marker read of a findCnfBlock result
MarkEnd(r) == IF r.reads = {} THEN 0 ELSE SetMax(r.reads) + 2

\* where a call that returns goes: back into load_cnf_file or to the caller
ReturnTo == IF call.viaFile THEN "lcf_ret" ELSE "idle"

\* a call begins; the caller keeps the output stream of write_cnf only to
\* decode it
Begin(s, kind, viaFile, need, rec) ==
    /\ input' = s
    /\ ctx' = NoCtx
    /\ result' = "none"
    /\ call' = [n |-> call.n + 1, kind |-> kind, pre |-> obj, entryPos |-> s.pos,
                readEnd |-> 0, dataEnd |-> 0, need |-> need, rec |-> rec,
                viaFile |-> viaFile, ub |-> call.ub]
    /\ pc' = IF viaFile THEN "lcf_enter" ELSE "enter"
    /\ output' = IF kind = "emitted" THEN output ELSE NoOutput
    /\ obj' = obj

\* the caller hands load_from_cnf a stream
CallStream ==
    /\ pc = "idle"
    /\ call.n < MaxCalls
    /\ \E s \in Streams : Begin(s, "fresh", FALSE, 0, NewMeasurement)
    /\ UNCHANGED <<loc, flt, mutex, thr>>

\* the files load_cnf_file may be given: none, or one of these contents
FileStreams ==
    {MkStream(p) : p \in {q \in ParamsA \cup ParamsD :
                              q.pos = 0 /\ q.ok /\ q.len \in {1000, 1792}}}

\* the caller calls load_cnf_file( filename )
CallFile ==
    /\ pc = "idle"
    /\ call.n < MaxCalls
    /\ \E s \in FileStreams \cup {NoStream} : Begin(s, "file", TRUE, 0, NewMeasurement)
    /\ UNCHANGED <<loc, flt, mutex, thr>>

\* load_cnf_file up to its call of load_from_cnf
LoadCnfFileEnter ==
    /\ pc = "lcf_enter"
    /\ obj' = ResetObj
    /\ IF input = NoStream
       THEN /\ result' = "false"
            /\ pc' = "idle"
       ELSE /\ result' = result
            /\ pc' = "enter"
    /\ UNCHANGED <<input, ctx, call, output, loc, flt, mutex, thr>>

\* load_cnf_file after load_from_cnf returned
LoadCnfFileReturn ==
    /\ pc = "lcf_ret"
    /\ obj' = IF result = "true" THEN [obj EXCEPT !.filename = "file.cnf"] ELSE obj
    /\ pc' = "idle"
    /\ UNCHANGED <<input, ctx, result, call, output, loc, flt, mutex, thr>>

\* load_from_cnf: the lock, reset(), the good() test and tellg()
Enter ==
    /\ pc = "enter"
    /\ obj' = ResetObj
    /\ IF ~input.ok
       THEN /\ result' = "false"
            /\ pc' = ReturnTo
            /\ ctx' = ctx
       ELSE /\ result' = result
            /\ pc' = "title"
            /\ ctx' = [NoCtx EXCEPT !.orig_pos = input.pos]
    /\ UNCHANGED <<input, call, output, loc, flt, mutex, thr>>

\* the size of the stream, the title block
FindTitle ==
    /\ pc = "title"
    /\ \E g \in Garbage :
        LET size == input.len - ctx.orig_pos
            r == findCnfBlock(1, ctx.SBeg, input, size, g)
            s1 == AfterRead(input, r.pos + 32 + 16, 64)
            title == trim(ReadAt(input, r.pos + 32 + 16, 64, g))
            sampleid == trim(ReadAt(s1, r.pos + 32 + 16 + 64, 16, g))
        IN  IF r.found
            THEN /\ ctx' = [ctx EXCEPT !.SPos = r.pos,
                                       !.size = size,
                                       !.meas.title = title,
                                       !.meas.remarks =
                                           IF sampleid # <<>>
                                           THEN Append(@, <<"Sample ID: ", sampleid>>)
                                           ELSE @]
                 /\ input' = AfterRead(s1, r.pos + 32 + 16 + 64, 16)
                 /\ call' = [call EXCEPT !.readEnd = Max(@, r.pos + 32 + 16 + 64 + 16)]
            ELSE /\ ctx' = [ctx EXCEPT !.SPos = r.pos, !.size = size]
                 /\ input' = input
                 /\ call' = [call EXCEPT !.readEnd = Max(@, MarkEnd(r))]
    /\ pc' = "header"
    /\ UNCHANGED <<obj, result, output, loc, flt, mutex, thr>>

\* the header block, or "Couldnt find record data"
FindHeader ==
    /\ pc = "header"
    /\ \E g \in Garbage :
        LET r == findCnfBlock(0, ctx.SBeg, input, ctx.size, g)
        IN  /\ ctx' = [ctx EXCEPT !.SPos = r.pos, !.Hdr = r.pos]
            /\ pc' = IF r.found THEN "layout" ELSE "catch"
            /\ call' = [call EXCEPT !.readEnd = Max(@, MarkEnd(r))]
    /\ UNCHANGED <<obj, input, result, output, loc, flt, mutex, thr>>

\* w34 and w36, the offsets and their test against the size
ReadLayout ==
    /\ pc = "layout"
    /\ \E g \in Garbage :
        LET w34 == U16(ReadAt(input, ctx.SPos + 34, 2, g))
            s1  == AfterRead(input, ctx.SPos + 34, 2)
            w36 == U16(ReadAt(s1, ctx.SPos + 36, 2, g))
            c   == [ctx EXCEPT !.w34 = w34, !.w36 = w36]
        IN  /\ ctx' = c
            /\ input' = AfterRead(s1, ctx.SPos + 36, 2)
            /\ pc' = IF InvalidRecordOffset(c) THEN "catch" ELSE "times"
            /\ call' = [call EXCEPT !.readEnd = Max(@, ctx.SPos + 38)]
    /\ UNCHANGED <<obj, result, output, loc, flt, mutex, thr>>

\* the start time, the real time and the live time
ReadTimes ==
    /\ pc = "times"
    /\ \E g \in Garbage :
        LET o == record_offset(ctx)
            b == ReadAt(input, o, 24, g)
            F(k) == SubSeq(b, 4 * k + 1, 4 * k + 4)
        IN  /\ ctx' = [ctx EXCEPT
                         !.meas.start_time = TimeOf(F(0), F(1)),
                         !.meas.real_time = TimeOf(Complement(F(2)), Complement(F(3))),
                         !.meas.live_time = TimeOf(Complement(F(4)), Complement(F(5)))]
            /\ input' = AfterRead(input, o, 24)
            /\ call' = [call EXCEPT !.readEnd = Max(@, o + 24)]
    /\ pc' = "nch"
    /\ UNCHANGED <<obj, result, output, loc, flt, mutex, thr>>

\* num_channels and its power-of-two test
ReadNumChannels ==
    /\ pc = "nch"
    /\ \E g \in Garbage :
        LET o == num_channel_offset(ctx)
            n == U32(ReadAt(input, o, 4, g))
        IN  /\ ctx' = [ctx EXCEPT !.num_channels = n]
            /\ input' = AfterRead(input, o, 4)
            /\ call' = [call EXCEPT !.readEnd = Max(@, o + 4)]
            /\ pc' = IF InvalidNumChannels(n) THEN "catch" ELSE "calib"
    /\ UNCHANGED <<obj, result, output, loc, flt, mutex, thr>>

\* what the calibration block of load_from_cnf leaves in the Measurement when
\* it does not throw, with the coefficients kept when they are all zero: a
\* mutant of CalibOutcome
CalibOutcome_KeepZeros(coeffs, valid) ==
    [coeffs |-> coeffs, model |-> IF valid THEN "Polynomial" ELSE "InvalidEquationType"]

\* what the calibration block leaves in the Measurement when it does not throw
CalibOutcome(coeffs, valid) ==
    IF valid THEN [coeffs |-> coeffs, model |-> "Polynomial"]
    ELSE [coeffs |-> <<>>, model |-> "InvalidEquationType"]

\* whether the calibration block throws "Calibration parameters were invalid"
InvalidCalibration(coeffs, valid) ==
    ~valid /\ ~(\A i \in 1..Len(coeffs) : IsZeroFloat(coeffs[i]))

\* the three calibration coefficients and their validity
ReadCalib ==
    /\ pc = "calib"
    /\ \E g \in Garbage, v \in BOOLEAN :
        LET o == energy_calib_offset(ctx)
            s1 == AfterRead(input, o, 4)
            s2 == AfterRead(s1, o + 4, 4)
            coeffs == <<readCnfFloat(input, o, g), readCnfFloat(s1, o + 4, g),
                        readCnfFloat(s2, o + 8, g)>>
            validCalib == calibration_is_valid(coeffs, ctx.num_channels, v)
            out == CalibOutcome(coeffs, validCalib)
        IN  /\ input' = AfterRead(s2, o + 8, 4)
            /\ call' = [call EXCEPT !.readEnd = Max(@, o + 12)]
            /\ IF InvalidCalibration(coeffs, validCalib)
               THEN /\ pc' = "catch"
                    /\ ctx' = [ctx EXCEPT !.coeffs_read = coeffs,
                                          !.validCalib = validCalib,
                                          !.meas.calibration_coeffs = coeffs,
                                          !.meas.energy_calibration_model = "Polynomial"]
               ELSE /\ pc' = "meta"
                    /\ ctx' = [ctx EXCEPT !.coeffs_read = coeffs,
                                          !.validCalib = validCalib,
                                          !.meas.calibration_coeffs = out.coeffs,
                                          !.meas.energy_calibration_model = out.model]
    /\ UNCHANGED <<obj, result, output, loc, flt, mutex, thr>>

\* the MCA type, the instrument name, the generic detector and the guess
\* that the detector is a Falcon 5000
ReadMeta ==
    /\ pc = "meta"
    /\ \E g \in Garbage :
        LET mo == mca_offset(ctx)
            io == instrument_offset(ctx)
            go == generic_detector_offset(ctx)
            mca_type == trim(ReadAt(input, mo, 8, g))
            s1 == AfterRead(input, mo, 8)
            instrument_name == trim(ReadAt(s1, io, 31, g))
            s2 == AfterRead(s1, io, 31)
            generic_detector == trim(ReadAt(s2, go, 8, g))
            o1 == IF mca_type # <<>>
                  THEN [obj EXCEPT !.remarks = Append(@, <<"MCA Type: ", mca_type>>)]
                  ELSE obj
        IN  /\ ctx' = [ctx EXCEPT !.mca_type = mca_type,
                                  !.meas.detector_name =
                                      IF instrument_name # <<>> THEN instrument_name ELSE @]
            /\ obj' = IF mca_type = MCA_I2K /\ generic_detector = GENERIC_Ge
                      THEN [o1 EXCEPT !.detector_type = "Falcon5000",
                                      !.instrument_type = "Spectrometer",
                                      !.manufacturer = "Canberra",
                                      !.instrument_model = "Falcon 5000"]
                      ELSE o1
            /\ input' = AfterRead(s2, go, 8)
            /\ call' = [call EXCEPT !.readEnd = Max(@, Max(mo + 8, Max(io + 31, go + 8)))]
    /\ pc' = "chan"
    /\ UNCHANGED <<result, output, loc, flt, mutex, thr>>

\* the first channel-data block, or "Couldnt locate channel data portion of
\* file", and the vector channeldata( num_channels )
FindChannels ==
    /\ pc = "chan"
    /\ \E g \in Garbage, nomem \in BOOLEAN :
        LET r == findCnfBlock(5, 0, input, ctx.size, g)
        IN  /\ nomem => AllocMayFail(ctx.num_channels)
            /\ ctx' = [ctx EXCEPT !.SBeg = 0, !.SPos = r.pos]
            /\ pc' = IF r.found /\ ~nomem THEN "data" ELSE "catch"
            /\ call' = [call EXCEPT !.readEnd = Max(@, MarkEnd(r))]
    /\ UNCHANGED <<obj, input, result, output, loc, flt, mutex, thr>>

\* the channel array read at the first block itself when findCnfBlock finds
\* no second one: a mutant of DataPos
DataPos_AtFirstMatch(r, SBeg) == IF r.found THEN r.pos + BlockSize ELSE SBeg - BlockSize

\* the offset the channel array is read from: 512 bytes after the second
\* block when findCnfBlock finds one from SBeg on, else SBeg
DataPos(r, SBeg) == IF r.found THEN r.pos + BlockSize ELSE SBeg

\* the second channel-data block, the test of the file size and the read of
\* the channel array
ReadChannels ==
    /\ pc = "data"
    /\ \E g \in Garbage :
        LET SBeg == ctx.SPos + BlockSize
            r == findCnfBlock(5, SBeg, input, ctx.size, g)
            c == [ctx EXCEPT !.SBeg = SBeg, !.SPos = r.pos, !.data_pos = DataPos(r, SBeg)]
            nbytes == Mul4U32(c.num_channels)
        IN  /\ call' = [call EXCEPT !.readEnd = Max(@, MarkEnd(r)),
                                    !.dataEnd = IF InvalidFileSize(c) THEN 0
                                                ELSE c.data_pos + nbytes]
            /\ IF InvalidFileSize(c)
               THEN /\ pc' = "catch"
                    /\ ctx' = c
                    /\ input' = [input EXCEPT !.pos = c.data_pos]
               ELSE /\ pc' = "commit"
                    /\ ctx' = [c EXCEPT !.channeldata =
                                   ChannelData(input, c.data_pos, nbytes)]
                    /\ input' = AfterRead(input, c.data_pos, nbytes)
    /\ UNCHANGED <<obj, result, output, loc, flt, mutex, thr>>

\* channeldata[0] = channeldata[1] = 0 on the elements the vector has
ZeroFirstTwo(cd) == [i \in (DOMAIN cd) \ {0, 1} |-> cd[i]]

\* the gamma counts: every element of channeldata as a float
GammaCounts(cd, n) == [has |-> TRUE, n |-> n, nz |-> [i \in DOMAIN cd |-> U32ToFloat(cd[i])]]

\* the first two channels cleared, the counts converted and summed, the
\* Measurement stored, cleanup_after_load() and the return of true.  With
\* fewer than two channels the two assignments write outside the vector:
\* the process dies there or goes on.
Commit ==
    /\ pc = "commit"
    /\ \E dies \in BOOLEAN, nomem \in BOOLEAN :
        LET cd == ZeroFirstTwo(ctx.channeldata)
            gc == GammaCounts(cd, ctx.num_channels)
            m  == [ctx.meas EXCEPT !.gamma_counts = gc,
                                   !.gamma_count_sum = SumOver(gc.nz, DOMAIN gc.nz)]
        IN  /\ dies => ctx.num_channels < 2
            /\ nomem => AllocMayFail(ctx.num_channels)
            /\ IF dies
               THEN /\ pc' = "crashed"
                    /\ UNCHANGED <<obj, result, ctx, call>>
               ELSE IF nomem
               THEN /\ pc' = "catch"
                    /\ UNCHANGED <<obj, result, ctx, call>>
               ELSE /\ pc' = ReturnTo
                    /\ obj' = cleanup_after_load(
                                  [obj EXCEPT !.measurements = Append(@, m)])
                    /\ result' = "true"
                    /\ ctx' = [ctx EXCEPT !.meas = m]
                    /\ call' = [call EXCEPT !.ub = @ \/ ctx.num_channels < 2]
    /\ UNCHANGED <<input, output, loc, flt, mutex, thr>>

\* the catch block without its reset(): a mutant of Catch
Catch_NoReset ==
    /\ pc = "catch"
    /\ input' = [input EXCEPT !.ok = TRUE, !.pos = ctx.orig_pos]
    /\ result' = "false"
    /\ pc' = ReturnTo
    /\ UNCHANGED <<obj, ctx, call, output, loc, flt, mutex, thr>>

\* the catch block without its seekg( orig_pos ): a mutant of Catch
Catch_NoSeek ==
    /\ pc = "catch"
    /\ input' = [input EXCEPT !.ok = TRUE]
    /\ obj' = ResetObj
    /\ result' = "false"
    /\ pc' = ReturnTo
    /\ UNCHANGED <<ctx, call, output, loc, flt, mutex, thr>>

\* the catch block: input.clear(), seekg( orig_pos ), reset(), return false
Catch ==
    /\ pc = "catch"
    /\ input' = [input EXCEPT !.ok = TRUE, !.pos = ctx.orig_pos]
    /\ obj' = ResetObj
    /\ result' = "false"
    /\ pc' = ReturnTo
    /\ UNCHANGED <<ctx, call, output, loc, flt, mutex, thr>>

----------------------------------------------------------------------------
(* SpecFile::write_cnf *)

\* sum_measurements( sample_nums, detectors ) of an object that holds at most
\* one Measurement: that Measurement
sum_measurements(o) ==
    IF o.measurements = <<>> THEN [found |-> FALSE, m |-> NewMeasurement]
    ELSE [found |-> TRUE, m |-> o.measurements[1]]

\* the test before "Gamma information": nothing to write
NothingToWrite(summed) ==
    \/ ~summed.found
    \/ ~summed.m.gamma_counts.has
    \/ summed.m.gamma_counts.n = 0

\* the switch on the energy calibration model: the coefficients to write
energy_cal_coeffs(m) ==
    CASE m.energy_calibration_model \in {"Polynomial", "UnspecifiedUsingDefaultPolynomial"}
             -> m.calibration_coeffs
      [] m.energy_calibration_model \in {"LowerChannelEdge", "InvalidEquationType"}
             -> <<>>
      [] OTHER -> m.calibration_coeffs

\* write_cnf( output, sample_nums, det_nums ): it returns false when there
\* is nothing to write, and otherwise throws "Writing CNF files not yet
\* implemented.", catches it and returns false; it writes nothing
write_cnf(o, written) ==
    LET summed == sum_measurements(o)
    IN  [written |-> written,
         result  |-> "false",
         rec     |-> summed.m,
         coeffs  |-> IF NothingToWrite(summed) THEN <<>> ELSE energy_cal_coeffs(summed.m),
         had     |-> ~NothingToWrite(summed)]

\* the caller calls write_cnf on an empty output stream
WriteCnf ==
    /\ pc = "idle"
    /\ call.n > 0
    /\ output' = write_cnf(obj, <<>>)
    /\ UNCHANGED <<obj, input, ctx, pc, result, call, loc, flt, mutex, thr>>

\* the stream that holds the bytes written
StreamOf(written) ==
    [bytes |-> BytesOf(Lay(0, written)), len |-> Len(written), pos |-> 0, ok |-> TRUE]

\* the caller decodes what write_cnf has written
CallEmitted ==
    /\ pc = "idle"
    /\ call.n < MaxCalls
    /\ output.result # "none"
    /\ Begin(StreamOf(output.written), "emitted", FALSE, 0, output.rec)
    /\ UNCHANGED <<loc, flt, mutex, thr>>

----------------------------------------------------------------------------
(* A decode of a stream that decoded, cut short *)

\* the size the decode that just succeeded needed: the first channel-data
\* block findable (SBeg+1), every header offset in range, the channel array
\* in range as the code tests it
NeedSize(c) ==
    LET h == [c EXCEPT !.SPos = c.Hdr]
    IN  SetMax({c.SBeg + 1, serial_num_offset(h) + 12, record_offset(h) + 24,
                c.SBeg + Mul4U32(c.num_channels)})

\* the lengths the stream is cut to
CutPoints(len, entryPos, need) ==
    {n \in {len - 1, entryPos + need - 1, entryPos + need, entryPos + need - 200,
            entryPos + (need \div 2)} : n >= entryPos /\ n < len}

\* the caller decodes the stream that just decoded, cut to its first n bytes
CallTruncated ==
    /\ pc = "idle"
    /\ call.n < MaxCalls
    /\ result = "true"
    /\ call.kind # "emitted"
    /\ \E n \in CutPoints(input.len, call.entryPos, NeedSize(ctx)) :
          Begin(Cut([input EXCEPT !.pos = call.entryPos, !.ok = TRUE], n),
                "cut", FALSE, NeedSize(ctx), NewMeasurement)
    /\ UNCHANGED <<loc, flt, mutex, thr>>

----------------------------------------------------------------------------
(* The specification of the decoder and the encoder, one caller *)

NoLoc == [B |-> 0, SBeg |-> 0, s |-> NoStream, size |-> 0, round |-> 0,
          res |-> [found |-> FALSE, pos |-> 0, reads |-> {}]]

NoFlt == [phase |-> "off", x |-> [s |-> 0, e |-> 0, m |-> 0], ptr |-> 0,
          after |-> <<>>, cam |-> <<>>, touched |-> 0, y |-> [s |-> 0, e |-> 0, m |-> 0]]

NoMutex == [owner |-> 0, count |-> 0]

NoThr == <<>>

DecodeInit ==
    /\ obj = ResetObj
    /\ input = NoStream
    /\ ctx = NoCtx
    /\ pc = "idle"
    /\ result = "none"
    /\ call = NoCall
    /\ output = NoOutput

Init ==
    /\ DecodeInit
    /\ loc = NoLoc
    /\ flt = NoFlt
    /\ mutex = NoMutex
    /\ thr = NoThr

Next ==
    \/ CallStream
    \/ CallFile
    \/ CallTruncated
    \/ CallEmitted
    \/ LoadCnfFileEnter
    \/ LoadCnfFileReturn
    \/ Enter
    \/ FindTitle
    \/ FindHeader
    \/ ReadLayout
    \/ ReadTimes
    \/ ReadNumChannels
    \/ ReadCalib
    \/ ReadMeta
    \/ FindChannels
    \/ ReadChannels
    \/ Commit
    \/ Catch
    \/ WriteCnf

Spec == Init /\ [][Next]_vars

----------------------------------------------------------------------------
(* Properties of the decoder and the encoder *)

\* a call has returned to the caller
Returned == pc = "idle" /\ result # "none"

Succeeded == pc = "idle" /\ result = "true"

Failed == pc = "idle" /\ result = "false"

\* C1 as claimed: a decode call that returns false leaves the object in the
\* state it had before the call (in behaviours free of undefined behaviour)
C1_FailureKeepsPriorState == (Failed /\ ~call.ub) => obj = call.pre

\* C1, amended: a decode call that returns false leaves the object in the
\* state reset() gives it, whatever it held before the call: no
\* measurement, no remark, the detector type unknown, the manufacturer, the
\* instrument model and type and the filename empty
C1_FailureLeavesResetState == Failed => obj = ResetObj

\* a decode of a stream failed on an object that held a decoded record
C1_Witness ==
    /\ Failed
    /\ call.kind = "fresh"
    /\ call.pre.measurements # <<>>
    /\ call.readEnd > 0

\* C2 as claimed: the decode of any proper prefix of a stream that decodes
\* returns failure with the read position where it was at entry (in
\* behaviours free of undefined behaviour)
C2_EveryTruncationFails ==
    (Returned /\ call.kind = "cut" /\ ~call.ub)
        => (result = "false" /\ input.pos = call.entryPos)

\* C2, amended: the decode of a prefix of a stream that decodes returns
\* failure when the prefix is shorter than the size the decode needed, and
\* every decode that returns failure leaves the read position where it was
\* at entry
C2_TruncationBelowNeedFails ==
    Returned =>
        /\ (call.kind = "cut" /\ input.len - call.entryPos < call.need) => result = "false"
        /\ result = "false" => input.pos = call.entryPos

\* the decode of a prefix shorter than needed, entered at a position other
\* than 0, has failed in the parse and the position is back
C2_Witness ==
    /\ Failed
    /\ call.kind = "cut"
    /\ input.len - call.entryPos < call.need
    /\ call.entryPos > 0
    /\ call.readEnd > call.entryPos
    /\ input.pos = call.entryPos

\* the eight header offsets of the spec, each with its field width, within lim
OffsetsWithin(H, W34, W36, lim) ==
    /\ H + W36 + 49 + 24 <= lim
    /\ H + 185 + 4 <= lim
    /\ H + W34 + 116 + 12 <= lim
    /\ H + W34 + 204 + 8 <= lim
    /\ H + W34 + 49 + 31 <= lim
    /\ H + W34 + 780 + 8 <= lim
    /\ H + W34 + 74 + 16 <= lim
    /\ H + W34 + 988 + 12 <= lim

\* C3: no read of the header part of the decode reaches the end of the
\* stream; the fields at the computed offsets are read only once every
\* offset plus its width is within the stream length; and a decode in which
\* one is not returns failure and commits no record
C3_OffsetsChecked ==
    /\ call.readEnd <= input.len
    /\ pc \in {"times", "nch", "calib", "meta", "chan", "data", "commit"}
          => OffsetsWithin(ctx.Hdr, ctx.w34, ctx.w36, input.len)
    /\ (Returned /\ call.readEnd >= ctx.Hdr + 38 /\ ctx.size > 0
            /\ ~OffsetsWithin(ctx.Hdr, ctx.w34, ctx.w36, input.len))
          => (result = "false" /\ obj.measurements = <<>>)

\* the test of the offsets has rejected a stream, entered at position 0,
\* whose header block is there but whose last header field is not
C3_Witness ==
    /\ pc = "catch"
    /\ call.readEnd = ctx.Hdr + 38
    /\ call.entryPos = 0
    /\ ~OffsetsWithin(ctx.Hdr, ctx.w34, ctx.w36, input.len)
    /\ OffsetsWithin(ctx.Hdr, ctx.w34, ctx.w36, input.len + 1)

\* C4: a decode succeeds only if the channel array, from the offset it is
\* read at, lies within the stream
C4_ChannelArrayInBounds ==
    Succeeded =>
        /\ ctx.data_pos <= input.len
        /\ ctx.num_channels <= (input.len - ctx.data_pos) \div 4

\* C5: after a successful decode the histogram has num_channels entries, and
\* its entries 0 and 1 are there and are 0
C5_FirstTwoChannelsZero ==
    Succeeded =>
        LET gc == obj.measurements[1].gamma_counts
        IN  /\ gc.has
            /\ gc.n = ctx.num_channels
            /\ 0 \in 0..(gc.n - 1) /\ 0 \notin DOMAIN gc.nz
            /\ 1 \in 0..(gc.n - 1) /\ 1 \notin DOMAIN gc.nz

\* C8: write_cnf of an object that holds a decoded record returns true, and
\* the decode of what it wrote returns true and gives that record (in
\* behaviours free of undefined behaviour)
C8_RoundTrip ==
    (Returned /\ call.kind = "emitted" /\ output.had /\ ~call.ub) =>
        /\ output.result = "true"
        /\ result = "true"
        /\ obj.measurements = <<output.rec>>

\* the calibration has been read in this call
CalibRead == ctx.coeffs_read # <<>>

AnyNonZero(coeffs) == \E i \in 1..Len(coeffs) : ~IsZeroFloat(coeffs[i])

\* C9: a committed record has no coefficient or three, and coefficients only
\* with the Polynomial model; when the validity check rejects the
\* coefficients read, the decode fails if one of them is not zero, and
\* else goes on with no coefficient and the model InvalidEquationType
C9_Calibration ==
    /\ Succeeded =>
          LET m == obj.measurements[1]
          IN  /\ Len(m.calibration_coeffs) \in {0, 3}
              /\ m.calibration_coeffs # <<>> => m.energy_calibration_model = "Polynomial"
    /\ (CalibRead /\ ~ctx.validCalib /\ AnyNonZero(ctx.coeffs_read))
          => (pc = "catch" \/ result = "false")
    /\ (CalibRead /\ ~ctx.validCalib /\ ~AnyNonZero(ctx.coeffs_read)
            /\ (pc \in {"meta", "chan", "data", "commit"} \/ Succeeded))
          => /\ ctx.meas.calibration_coeffs = <<>>
             /\ ctx.meas.energy_calibration_model = "InvalidEquationType"
    /\ (Succeeded /\ CalibRead /\ ~ctx.validCalib)
          => /\ obj.measurements[1].calibration_coeffs = <<>>
             /\ obj.measurements[1].energy_calibration_model = "InvalidEquationType"

\* a decode has succeeded on coefficients the check rejected: their bytes
\* were not all 0, their values were, and the record has no coefficient
C9_Witness ==
    /\ Succeeded
    /\ CalibRead
    /\ ~ctx.validCalib
    /\ obj.measurements[1].calibration_coeffs = <<>>
    /\ obj.measurements[1].energy_calibration_model = "InvalidEquationType"
    /\ \E o \in DOMAIN input.bytes :
          o >= ctx.Hdr + ctx.w34 + 116 /\ o < ctx.Hdr + ctx.w34 + 128

\* the offsets from `from` on, in strides of 512, at which the stream of the
\* call holds a channel-data block (0x05, 0x20) with offset + 512 < size
ChanBlocks(from) ==
    {o \in 0..input.len :
        /\ o >= from
        /\ (o - from) % 512 = 0
        /\ o + 512 < ctx.size
        /\ Byte(input, o) = 5
        /\ Byte(input, o + 1) = 32}

SetMin(S) == CHOOSE m \in S : \A x \in S : m <= x

\* the first channel-data block found from offset 0
FirstMatch == SetMin(ChanBlocks(0))

\* the channel array has been located in this call
ArrayLocated == pc = "commit" \/ (Succeeded /\ call.kind # "none")

\* C11 as claimed: the channel array is read 512 bytes after the second
\* block when the stream holds a channel-data block at firstMatch + 512, and
\* at firstMatch itself otherwise (in behaviours free of undefined
\* behaviour)
C11_ArrayAtFirstMatch ==
    (Succeeded /\ call.kind # "none" /\ ~call.ub) =>
        LET second == FirstMatch + 512
        IN  ctx.data_pos =
                IF second + 1 < input.len /\ Byte(input, second) = 5
                       /\ Byte(input, second + 1) = 32
                THEN second + 512
                ELSE FirstMatch

\* C11, amended: with firstMatch the first channel-data block found from
\* offset 0, the channel array is read 512 bytes after the start of the
\* first channel-data block the locator finds from firstMatch + 512 on (at
\* firstMatch + 512 or any later stride of 512, with offset + 512 < size),
\* and at firstMatch + 512 when it finds none
C11_ArrayAfterBlock ==
    ArrayLocated =>
        /\ ChanBlocks(0) # {}
        /\ ctx.SBeg = FirstMatch + 512
        /\ ctx.data_pos =
              IF ChanBlocks(FirstMatch + 512) # {}
              THEN SetMin(ChanBlocks(FirstMatch + 512)) + 512
              ELSE FirstMatch + 512
        /\ pc = "commit" => call.dataEnd = ctx.data_pos + Mul4U32(ctx.num_channels)

\* a decode has succeeded whose second channel-data block is not at
\* firstMatch + 512 but a stride later, the array read 512 bytes after it
C11_Witness ==
    /\ Succeeded
    /\ call.kind = "fresh"
    /\ ChanBlocks(0) # {}
    /\ ChanBlocks(FirstMatch + 512) # {}
    /\ SetMin(ChanBlocks(FirstMatch + 512)) > FirstMatch + 512
    /\ ctx.data_pos = SetMin(ChanBlocks(FirstMatch + 512)) + 512

----------------------------------------------------------------------------
(* The block locator on its own: any marker, start offset and stream *)

\* the first two bytes a block may hold
LocKinds == {<<0, MarkerTag>>, <<1, MarkerTag>>, <<5, MarkerTag>>, <<5, 0>>, <<0, 0>>}

\* the stream of these blocks, cut to len bytes
LocStream(kinds, len) ==
    [bytes |-> BytesOf({q \in UNION {Lay(BlockSize * (k - 1), kinds[k]) :
                                         k \in 1..Len(kinds)} : q[1] < len}),
     len |-> len, pos |-> 0, ok |-> TRUE]

\* lengths around the end of the last of n blocks
LocLens(n) ==
    {BlockSize * (n - 1) + 1, BlockSize * n, BlockSize * n + 1, BlockSize * n + 300}

LocStreams ==
    UNION {{LocStream(kinds, len) : kinds \in [1..n -> LocKinds], len \in LocLens(n)} :
              n \in 1..MaxBlocks}

LocInit ==
    \E B \in {0, 1, 5}, SBeg \in {0, 3, BlockSize}, s \in LocStreams :
        loc = [B |-> B, SBeg |-> SBeg, s |-> s, size |-> s.len, round |-> 0,
               res |-> [found |-> FALSE, pos |-> 0, reads |-> {}]]

\* findCnfBlock( B, SBeg, SPos, input, size )
Locate ==
    /\ loc.round = 0
    /\ \E g \in Garbage :
          loc' = [loc EXCEPT !.res = findCnfBlock(loc.B, loc.SBeg, loc.s, loc.size, g),
                             !.round = 1]
    /\ UNCHANGED <<obj, input, ctx, pc, result, call, output, flt, mutex, thr>>

\* SBeg = SPos + 512; findCnfBlock( B, SBeg, SPos, input, size ): the search
\* for a second block, as the decoder makes it for the channel data
LocateNext ==
    /\ loc.round = 1
    /\ loc.res.found
    /\ \E g \in Garbage :
          LET SBeg == loc.res.pos + BlockSize
          IN  loc' = [loc EXCEPT !.SBeg = SBeg,
                                 !.res = findCnfBlock(loc.B, SBeg, loc.s, loc.size, g),
                                 !.round = 2]
    /\ UNCHANGED <<obj, input, ctx, pc, result, call, output, flt, mutex, thr>>

InitLocate ==
    /\ DecodeInit
    /\ LocInit
    /\ flt = NoFlt
    /\ mutex = NoMutex
    /\ thr = NoThr

NextLocate ==
    \/ Locate
    \/ LocateNext

SpecLocate == InitLocate /\ [][NextLocate]_vars

\* the offsets the spec lets the locator return: startOffset + 512*k whose
\* two bytes are (marker, 0x20), with offset + 512 < streamLength
LocCandidates ==
    {o \in 0..loc.s.len :
        /\ o >= loc.SBeg
        /\ (o - loc.SBeg) % 512 = 0
        /\ o + 512 < loc.s.len
        /\ Byte(loc.s, o) = loc.B
        /\ Byte(loc.s, o + 1) = 32}

\* C6: the locator returns the smallest such offset, reports NotFound when
\* there is none, and reads no marker at an offset beyond streamLength - 512
\* nor past the end of the stream
C6_BlockLocator ==
    loc.round > 0 =>
        /\ loc.res.found <=> LocCandidates # {}
        /\ loc.res.found =>
              /\ loc.res.pos \in LocCandidates
              /\ \A o \in LocCandidates : loc.res.pos <= o
        /\ \A r \in loc.res.reads : r <= loc.s.len - 512 /\ r + 2 <= loc.s.len

\* the locator has passed a block that does not match and returned a later
\* one, in a stream whose last block holds the marker too but ends the stream
C6_Witness ==
    /\ loc.round = 1
    /\ loc.res.found
    /\ loc.res.pos > loc.SBeg
    /\ \E o \in DOMAIN loc.s.bytes :
          /\ o > loc.res.pos
          /\ o + 512 = loc.s.len
          /\ Byte(loc.s, o) = loc.B /\ Byte(loc.s, o + 1) = 32

----------------------------------------------------------------------------
(* The float conversions on their own *)

\* finite floats: both zeros, subnormals, the smallest normals, 0.5, 1.0,
\* 2.5, -1.0 and floats whose product with 4 is at the top of the range
Floats ==
    {[s |-> 0, e |-> 0, m |-> 0], [s |-> 1, e |-> 0, m |-> 0],
     [s |-> 0, e |-> 0, m |-> 1], [s |-> 0, e |-> 0, m |-> 3],
     [s |-> 0, e |-> 0, m |-> 8388607], [s |-> 0, e |-> 1, m |-> 0],
     [s |-> 0, e |-> 2, m |-> 1], [s |-> 0, e |-> 126, m |-> 0],
     [s |-> 0, e |-> 127, m |-> 0], [s |-> 1, e |-> 127, m |-> 0],
     [s |-> 0, e |-> 128, m |-> 2097152], [s |-> 0, e |-> 252, m |-> 8388607],
     [s |-> 0, e |-> 253, m |-> 0], [s |-> 0, e |-> 254, m |-> 8388607]}

\* sizeof(char*) of the builds
PointerSizes == {4, 8}

\* what the four bytes after temp_f may hold
AfterBytes == {<<0, 0, 0, 0>>, <<171, 205, 18, 52>>}

FltInit ==
    \E x \in Floats, ptr \in PointerSizes, after \in AfterBytes :
        flt = [phase |-> "init", x |-> x, ptr |-> ptr, after |-> after, cam |-> <<>>,
               touched |-> 0, y |-> [s |-> 0, e |-> 0, m |-> 0]]

\* convert_to_CAM_float( x ) and the caller's read of the four bytes it
\* returns.  "delete[] temp" frees an address of the stack: the process dies
\* there or goes on; the pointer returned is to the local array output, dead
\* at the return: the caller finds its bytes as they were or overwritten.
Encode ==
    /\ flt.phase = "init"
    /\ \E dies \in BOOLEAN, intact \in BOOLEAN, junk \in Garbage :
        LET r == convert_to_CAM_float(flt.x, flt.ptr, flt.after)
        IN  flt' = IF dies THEN [flt EXCEPT !.phase = "crashed", !.touched = r.touched]
                   ELSE [flt EXCEPT !.phase = "encoded",
                                    !.touched = r.touched,
                                    !.cam = IF intact THEN SubSeq(r.output, 1, 4)
                                            ELSE <<junk, junk, junk, junk>>]
    /\ UNCHANGED <<obj, input, ctx, pc, result, call, output, loc, mutex, thr>>

\* readCnfFloat on a stream that holds the four bytes
Decode ==
    /\ flt.phase = "encoded"
    /\ \E g \in Garbage :
          flt' = [flt EXCEPT !.phase = "decoded",
                             !.y = readCnfFloat(StreamOf(flt.cam), 0, g)]
    /\ UNCHANGED <<obj, input, ctx, pc, result, call, output, loc, mutex, thr>>

InitFloat ==
    /\ DecodeInit
    /\ loc = NoLoc
    /\ FltInit
    /\ mutex = NoMutex
    /\ thr = NoThr

NextFloat ==
    \/ Encode
    \/ Decode

SpecFloat == InitFloat /\ [][NextFloat]_vars

\* C10: the encoder reads just the four bytes of the float, and the decoder
\* gives back the float that was encoded
C10_FloatRoundTrip ==
    /\ flt.phase \in {"encoded", "decoded"} => flt.touched = 4
    /\ flt.phase = "decoded" => flt.y = flt.x

----------------------------------------------------------------------------
(* The recursive mutex: threads that call load_cnf_file, load_from_cnf and
   write_cnf on one object.  mutex.owner is the thread that holds mutex_ (0:
   none) and mutex.count how many times it holds it. *)

\* threads that call into the object
NumThreads == 2

Threads == 1..NumThreads

\* std::unique_lock<std::recursive_mutex> scoped_lock( mutex_ ) can return
CanLock(t) == mutex.owner = 0 \/ mutex.owner = t

\* the mutex after thread t locked it
Locked(t) == [owner |-> t, count |-> mutex.count + 1]

\* the destructor of a scoped_lock that leaves the mutex locked: a mutant of
\* Unlocked
Unlocked_Leak(t) == mutex

\* the mutex after the destructor of a scoped_lock of thread t
Unlocked(t) ==
    IF mutex.count = 1 THEN [owner |-> 0, count |-> 0]
    ELSE [mutex EXCEPT !.count = @ - 1]

\* thread t goes to p
Goto(t, p) == thr' = [thr EXCEPT ![t].pc = p]

\* where load_from_cnf returns to: load_cnf_file, or the caller
LfcReturnTo(t) == IF thr[t].nested THEN "lcf_ret" ELSE "idle"

lockIdle == <<obj, input, ctx, pc, result, call, output, loc, flt>>

\* a thread calls one of the three
StartCall(t) ==
    /\ thr[t].pc = "idle"
    /\ \E p \in {"lcf_lock", "lfc_lock", "w_lock"} :
          thr' = [thr EXCEPT ![t] = [pc |-> p, nested |-> FALSE]]
    /\ UNCHANGED <<mutex, lockIdle>>

\* load_cnf_file: the scoped_lock
LcfLock(t) ==
    /\ thr[t].pc = "lcf_lock"
    /\ CanLock(t)
    /\ mutex' = Locked(t)
    /\ Goto(t, "lcf_reset")
    /\ UNCHANGED lockIdle

\* load_cnf_file: reset()
LcfReset(t) ==
    /\ thr[t].pc = "lcf_reset"
    /\ Goto(t, "lcf_open")
    /\ UNCHANGED <<mutex, lockIdle>>

\* load_cnf_file: the file does not open and false is returned, or
\* load_from_cnf is called
LcfOpen(t) ==
    /\ thr[t].pc = "lcf_open"
    /\ \E is_open \in BOOLEAN :
          IF is_open
          THEN /\ thr' = [thr EXCEPT ![t] = [pc |-> "lfc_lock", nested |-> TRUE]]
               /\ mutex' = mutex
          ELSE /\ Goto(t, "idle")
               /\ mutex' = Unlocked(t)
    /\ UNCHANGED lockIdle

\* load_from_cnf: the scoped_lock
LfcLock(t) ==
    /\ thr[t].pc = "lfc_lock"
    /\ CanLock(t)
    /\ mutex' = Locked(t)
    /\ Goto(t, "lfc_reset")
    /\ UNCHANGED lockIdle

\* load_from_cnf: reset(), and the return of false when the stream is not
\* good
LfcReset(t) ==
    /\ thr[t].pc = "lfc_reset"
    /\ \E good \in BOOLEAN :
          IF good
          THEN /\ Goto(t, "lfc_parse")
               /\ mutex' = mutex
          ELSE /\ Goto(t, LfcReturnTo(t))
               /\ mutex' = Unlocked(t)
    /\ UNCHANGED lockIdle

\* load_from_cnf: the try block, which ends by the commit or by a throw
LfcParse(t) ==
    /\ thr[t].pc = "lfc_parse"
    /\ \E p \in {"lfc_commit", "lfc_catch"} : Goto(t, p)
    /\ UNCHANGED <<mutex, lockIdle>>

\* load_from_cnf: measurements_.push_back, cleanup_after_load(), return true
LfcCommit(t) ==
    /\ thr[t].pc = "lfc_commit"
    /\ Goto(t, LfcReturnTo(t))
    /\ mutex' = Unlocked(t)
    /\ UNCHANGED lockIdle

\* load_from_cnf: the catch block, return false
LfcCatch(t) ==
    /\ thr[t].pc = "lfc_catch"
    /\ Goto(t, LfcReturnTo(t))
    /\ mutex' = Unlocked(t)
    /\ UNCHANGED lockIdle

\* load_cnf_file: filename_ = filename, return loaded
LcfReturn(t) ==
    /\ thr[t].pc = "lcf_ret"
    /\ thr' = [thr EXCEPT ![t] = [pc |-> "idle", nested |-> FALSE]]
    /\ mutex' = Unlocked(t)
    /\ UNCHANGED lockIdle

\* write_cnf: the scoped_lock, the first statement of its try block
WLock(t) ==
    /\ thr[t].pc = "w_lock"
    /\ CanLock(t)
    /\ mutex' = Locked(t)
    /\ Goto(t, "w_sum")
    /\ UNCHANGED lockIdle

\* write_cnf: sum_measurements, and the return of false when there is
\* nothing to write
WSum(t) ==
    /\ thr[t].pc = "w_sum"
    /\ \E nothing \in BOOLEAN :
          IF nothing
          THEN /\ Goto(t, "idle")
               /\ mutex' = Unlocked(t)
          ELSE /\ Goto(t, "w_throw")
               /\ mutex' = mutex
    /\ UNCHANGED lockIdle

\* write_cnf: the rest of the try block, to its throw; leaving the try block
\* destroys the scoped_lock
WThrow(t) ==
    /\ thr[t].pc = "w_throw"
    /\ Goto(t, "w_catch")
    /\ mutex' = Unlocked(t)
    /\ UNCHANGED lockIdle

\* write_cnf: the catch block: the message to cerr, return false
WCatch(t) ==
    /\ thr[t].pc = "w_catch"
    /\ Goto(t, "idle")
    /\ UNCHANGED <<mutex, lockIdle>>

InitLock ==
    /\ DecodeInit
    /\ loc = NoLoc
    /\ flt = NoFlt
    /\ mutex = NoMutex
    /\ thr = [t \in Threads |-> [pc |-> "idle", nested |-> FALSE]]

NextLock ==
    \E t \in Threads :
        \/ StartCall(t)
        \/ LcfLock(t)
        \/ LcfReset(t)
        \/ LcfOpen(t)
        \/ LfcLock(t)
        \/ LfcReset(t)
        \/ LfcParse(t)
        \/ LfcCommit(t)
        \/ LfcCatch(t)
        \/ LcfReturn(t)
        \/ WLock(t)
        \/ WSum(t)
        \/ WThrow(t)
        \/ WCatch(t)

SpecLock == InitLock /\ [][NextLock]_vars

\* the steps of a decode call after its scoped_lock, to its return
InDecode(t) ==
    thr[t].pc \in {"lcf_reset", "lcf_open", "lfc_reset", "lfc_parse", "lfc_commit",
                   "lfc_catch", "lcf_ret"}
        \/ (thr[t].pc = "lfc_lock" /\ thr[t].nested)

\* the steps of write_cnf inside its try block, after its scoped_lock
InEncodeTry(t) == thr[t].pc \in {"w_sum", "w_throw"}

\* the steps of write_cnf after its scoped_lock, to its return
InEncode(t) == thr[t].pc \in {"w_sum", "w_throw", "w_catch"}

\* how many times thread t holds the mutex
Held(t) == IF mutex.owner = t THEN mutex.count ELSE 0

\* C7 as claimed: a thread that has taken the lock in a decode or encode
\* call holds it until the call returns
C7_LockHeldUntilReturn ==
    \A t \in Threads : (InDecode(t) \/ InEncode(t)) => Held(t) >= 1

\* C7, amended: a decode call holds the lock from its scoped_lock to its
\* return, write_cnf from its scoped_lock to the end of its try block (its
\* catch block runs with the lock released); no two threads are between
\* their scoped_lock and its release at once; the nested scoped_lock of
\* load_from_cnf under load_cnf_file is never blocked and makes the count 2;
\* a thread that has returned holds the lock zero times
C7_LockDiscipline ==
    /\ \A t \in Threads : (InDecode(t) \/ InEncodeTry(t)) => Held(t) >= 1
    /\ \A t, u \in Threads :
          (t # u /\ (InDecode(t) \/ InEncodeTry(t))) => ~(InDecode(u) \/ InEncodeTry(u))
    /\ \A t \in Threads : (thr[t].pc = "lfc_lock" /\ thr[t].nested) => CanLock(t)
    /\ \A t \in Threads :
          (thr[t].nested /\ thr[t].pc \in {"lfc_reset", "lfc_parse", "lfc_commit",
                                           "lfc_catch"}) => Held(t) = 2
    /\ \A t \in Threads : thr[t].pc \in {"idle", "lcf_lock", "w_lock", "w_catch"}
          => Held(t) = 0
    /\ \A t \in Threads : (thr[t].pc = "lfc_lock" /\ ~thr[t].nested) => Held(t) = 0

\* a thread is in load_from_cnf under load_cnf_file, holding the lock twice,
\* while another thread waits for the lock in write_cnf
C7_Witness ==
    \E t, u \in Threads :
        /\ t # u
        /\ thr[t].nested
        /\ thr[t].pc = "lfc_catch"
        /\ Held(t) = 2
        /\ thr[u].pc = "w_lock"

====
